---- MODULE Spec2Model ----
(***************************************************************************)
(* Model of the melonJS math utility functions (namespace math).           *)
(*                                                                         *)
(* A JavaScript number holding an integer is a pair <<hi, lo>> that stands *)
(* for hi * 2^16 + lo with 0 <= lo < 2^16, so that values at and beyond    *)
(* 2^31 and the 32-bit conversions of the bitwise operators are exact.     *)
(* A number holding a decimal fraction is a record [m, e] that stands for  *)
(* m / 10^e, m being such a pair.  A call is recorded with its arguments   *)
(* as passed (an omitted optional argument is absent from args), its       *)
(* numeric result in ret or its boolean result in retBool, and the value   *)
(* Math.random() returned, if it was called, in sample (over RandDen).     *)
(***************************************************************************)
EXTENDS Integers, Sequences, FiniteSets, TLC

VARIABLES fn, args, ret, retBool, sample

vars == <<fn, args, ret, retBool, sample>>

----------------------------------------------------------------------------
(* Bounds of the explored inputs *)

\* exponents k of the inputs 2^k + d and -(2^k) + d
MaxExp == 32
\* offsets d around each power of two
Delta == 2
\* the integers -SmallMax .. SmallMax are all inputs
SmallMax == 1100
\* Math.random() returns j / RandDen, j in 0 .. RandDen - 1
RandDen == 16
\* mantissas of the decimal inputs of round
MaxMant == 25
\* fractional digits of the decimal inputs
MaxFrac == 3
\* the dec argument of round and the precision argument of toBeCloseTo
MaxDec == 3
\* mantissas of the decimal inputs of toBeCloseTo
CloseMant == 5

----------------------------------------------------------------------------
(* Integer-valued numbers *)

Base == 2^16
Half == 2^15

Norm(h, l) == <<h + (l \div Base), l % Base>>

N(i) == Norm(0, i)

NumAdd(a, b) == Norm(a[1] + b[1], a[2] + b[2])

NumNeg(a) == Norm(-a[1], -a[2])

NumSub(a, b) == NumAdd(a, NumNeg(b))

NumMulSmall(a, c) == Norm(a[1] * c, a[2] * c)

NumLess(a, b) == a[1] < b[1] \/ (a[1] = b[1] /\ a[2] < b[2])

NumLeq(a, b) == a = b \/ NumLess(a, b)

NumIsNeg(a) == a[1] < 0

NumAbs(a) == IF NumIsNeg(a) THEN NumNeg(a) ELSE a

\* floor(a / q) and a mod q for 0 < q < 2^15
NumDivFloor(a, q) == <<a[1] \div q, (((a[1] % q) * Base) + a[2]) \div q>>

NumMod(a, q) == (((a[1] % q) * Base) + a[2]) % q

\* a / q truncated toward zero
NumDivTrunc(a, q) ==
    IF NumIsNeg(a) /\ NumMod(a, q) # 0
    THEN NumAdd(NumDivFloor(a, q), N(1))
    ELSE NumDivFloor(a, q)

RECURSIVE FloorDivPow10(_, _)
FloorDivPow10(a, k) == IF k = 0 THEN a ELSE FloorDivPow10(NumDivFloor(a, 10), k - 1)

\* a / (2 * 10^k) truncated toward zero
TruncDiv2Pow10(a, k) ==
    LET q == FloorDivPow10(NumDivFloor(NumAbs(a), 2), k)
    IN  IF NumIsNeg(a) THEN NumNeg(q) ELSE q

Pow2(k) == IF k < 16 THEN <<0, 2^k>> ELSE <<2^(k - 16), 0>>

Pow10(k) == 10^k

----------------------------------------------------------------------------
(* The 32-bit integer operators of JavaScript *)

\* ToInt32: the value modulo 2^32, taken in -2^31 .. 2^31 - 1
ToInt32(a) == <<((a[1] + Half) % Base) - Half, a[2]>>

U16(h) == h % Base

S16(u) == IF u >= Half THEN u - Base ELSE u

RECURSIVE BitAnd(_, _)
BitAnd(x, y) ==
    IF x = 0 \/ y = 0 THEN 0
    ELSE ((x % 2) * (y % 2)) + 2 * BitAnd(x \div 2, y \div 2)

RECURSIVE BitOr(_, _)
BitOr(x, y) ==
    IF x = 0 THEN y
    ELSE IF y = 0 THEN x
    ELSE (IF (x % 2) + (y % 2) > 0 THEN 1 ELSE 0) + 2 * BitOr(x \div 2, y \div 2)

\* a & b
And32(a, b) ==
    LET x == ToInt32(a)
        y == ToInt32(b)
    IN  <<S16(BitAnd(U16(x[1]), U16(y[1]))), BitAnd(x[2], y[2])>>

\* a | b
Or32(a, b) ==
    LET x == ToInt32(a)
        y == ToInt32(b)
    IN  <<S16(BitOr(U16(x[1]), U16(y[1]))), BitOr(x[2], y[2])>>

\* a >> k, the sign-propagating shift, for 0 < k <= 16
Sar32(a, k) ==
    LET x == ToInt32(a)
        p == 2^k
    IN  <<x[1] \div p, ((x[1] % p) * (Base \div p)) + (x[2] \div p)>>

\* the literal 0xaaaaaaaa
OddBitsMask == <<43690, 43690>>

----------------------------------------------------------------------------
(* The functions *)

\* variant: zero is excluded
isPowerOfTwo_nonZero(val) == val # N(0) /\ And32(val, NumSub(val, N(1))) = N(0)

isPowerOfTwo(val) == And32(val, NumSub(val, N(1))) = N(0)

\* variant: the mask 0x2aaaaaaa, which leaves out bit 31
isPowerOfFour_mask30(val) ==
    IF val = N(0) \/ val = N(2) \/ val = N(3) THEN FALSE
    ELSE IF val = N(1) THEN TRUE
    ELSE IF And32(val, NumSub(val, N(1))) = N(0)
         THEN And32(val, <<10922, 43690>>) = N(0)
         ELSE FALSE

isPowerOfFour(val) ==
    IF val = N(0) \/ val = N(2) \/ val = N(3) THEN FALSE
    ELSE IF val = N(1) THEN TRUE
    ELSE IF And32(val, NumSub(val, N(1))) = N(0)
         THEN And32(val, OddBitsMask) = N(0)
         ELSE FALSE

\* val |= val >> k
Smear(val, k) == Or32(val, Sar32(val, k))

\* variant: without the initial decrement
nextPowerOfTwo_noDecrement(val) ==
    LET v1 == Smear(val, 1)
        v2 == Smear(v1, 2)
        v3 == Smear(v2, 4)
        v4 == Smear(v3, 8)
        v5 == Smear(v4, 16)
    IN  NumAdd(v5, N(1))

\* variant: without the last shift, by 16
nextPowerOfTwo_noShift16(val) ==
    LET v0 == NumSub(val, N(1))
        v1 == Smear(v0, 1)
        v2 == Smear(v1, 2)
        v3 == Smear(v2, 4)
        v4 == Smear(v3, 8)
    IN  NumAdd(v4, N(1))

nextPowerOfTwo(val) ==
    LET v0 == NumSub(val, N(1))
        v1 == Smear(v0, 1)
        v2 == Smear(v1, 2)
        v3 == Smear(v2, 4)
        v4 == Smear(v3, 8)
        v5 == Smear(v4, 16)
    IN  NumAdd(v5, N(1))

\* variant: the upper comparison reversed
clamp_upperReversed(val, low, high) ==
    IF NumLess(val, low) THEN low
    ELSE IF NumLess(val, high) THEN high
    ELSE val

clamp(val, low, high) ==
    IF NumLess(val, low) THEN low
    ELSE IF NumLess(high, val) THEN high
    ELSE val

\* variant: the range taken as max - min + 1
random_inclusive(min, max, j) ==
    NumAdd(ToInt32(NumDivTrunc(NumMulSmall(NumAdd(NumSub(max, min), N(1)), j), RandDen)), min)

\* Math.random() * (max - min) with Math.random() = j / RandDen, then ~~, then + min
random(min, max, j) ==
    NumAdd(ToInt32(NumDivTrunc(NumMulSmall(NumSub(max, min), j), RandDen)), min)

\* variant: the weight 1 - (1 - u)^2 = (2 * j * RandDen - j^2) / RandDen^2
weightedRandom_inverted(min, max, j) ==
    NumAdd(ToInt32(NumDivTrunc(NumMulSmall(NumSub(max, min), (2 * j * RandDen) - (j * j)),
                               RandDen * RandDen)), min)

\* Math.pow(Math.random(), 2) = j^2 / RandDen^2
weightedRandom(min, max, j) ==
    NumAdd(ToInt32(NumDivTrunc(NumMulSmall(NumSub(max, min), j * j), RandDen * RandDen)), min)

\* an optional argument is <<>> when omitted and <<v>> when given
Default(opt, d) == IF opt = <<>> THEN d ELSE opt[1]

\* 0.5 + num * 10^d truncated toward zero, num = m / 10^e:
\* (2 * m * 10^d + 10^e) / (2 * 10^e)
TruncHalfPlus(num, d) ==
    TruncDiv2Pow10(NumAdd(NumMulSmall(num.m, 2 * Pow10(d)), N(Pow10(num.e))), num.e)

\* variant: without the 0.5 bias
round_noBias(num, dec) ==
    LET d == Default(dec, 0)
    IN  [m |-> ToInt32(TruncDiv2Pow10(NumMulSmall(num.m, 2 * Pow10(d)), num.e)), e |-> d]

\* variant: Math.floor in place of ~~
round_floor(num, dec) ==
    LET d == Default(dec, 0)
    IN  [m |-> ToInt32(FloorDivPow10(
                   NumDivFloor(NumAdd(NumMulSmall(num.m, 2 * Pow10(d)), N(Pow10(num.e))), 2),
                   num.e)),
         e |-> d]

round(num, dec) ==
    LET d == Default(dec, 0)
    IN  [m |-> ToInt32(TruncHalfPlus(num, d)), e |-> d]

\* expected - actual in units of 10^-s, s the larger of the two scales
DecDiff(x, y) ==
    LET s == IF x.e > y.e THEN x.e ELSE y.e
    IN  NumSub(NumMulSmall(x.m, Pow10(s - x.e)), NumMulSmall(y.m, Pow10(s - y.e)))

\* variant: without Math.abs
toBeCloseTo_noAbs(expected, actual, precision) ==
    LET p == Default(precision, 2)
        s == IF expected.e > actual.e THEN expected.e ELSE actual.e
    IN  NumLess(NumMulSmall(DecDiff(expected, actual), 2 * Pow10(p)), N(Pow10(s)))

toBeCloseTo(expected, actual, precision) ==
    LET p == Default(precision, 2)
        s == IF expected.e > actual.e THEN expected.e ELSE actual.e
    IN  NumLess(NumMulSmall(NumAbs(DecDiff(expected, actual)), 2 * Pow10(p)), N(Pow10(s)))

----------------------------------------------------------------------------
(* Inputs *)

IntInputs ==
    {N(i) : i \in (-SmallMax)..SmallMax}
    \cup {NumAdd(Pow2(k), N(d)) : k \in 0..MaxExp, d \in (-Delta)..Delta}
    \cup {NumAdd(NumNeg(Pow2(k)), N(d)) : k \in 0..MaxExp, d \in (-Delta)..Delta}

ClampInputs == {N(i) : i \in (-Delta)..Delta} \cup {NumAdd(Pow2(31), N(d)) : d \in (-1)..1}

RandInputs ==
    {N(i) : i \in (-Delta)..Delta} \cup {N(5), N(10)}
    \cup {NumAdd(Pow2(31), N(d)) : d \in (-1)..0} \cup {Pow2(32)}

Dec(i, e) == [m |-> N(i), e |-> e]

OptArgs == {<<>>} \cup {<<d>> : d \in 0..MaxDec}

\* decimals num with num * 10^d within 6 tenths of 2^31 or of -2^31
LimitPairs ==
    {<<[m |-> NumAdd(NumMulSmall(Pow2(31), 10 * sg), N(t)), e |-> d + 1], <<d>>>> :
        sg \in {-1, 1}, t \in (-6)..6, d \in 0..1}

RoundInputs ==
    ({Dec(i, e) : i \in (-MaxMant)..MaxMant, e \in 0..MaxFrac} \X OptArgs)
    \cup {<<Dec(1033333, 5), <<2>>>>}
    \cup LimitPairs

CloseInputs ==
    {Dec(i, e) : i \in (-CloseMant)..CloseMant, e \in 0..MaxFrac}
    \cup {Dec(10, 0), Dec(10004, 3), Dec(101, 1)}

----------------------------------------------------------------------------
(* The calls *)

\* an integer-valued number, and an optional argument, as passed
Whole(v) == [m |-> v, e |-> 0]

Passed(opt) == [i \in 1..Len(opt) |-> Whole(N(opt[i]))]

Init ==
    /\ fn = "none"
    /\ args = <<>>
    /\ ret = Whole(N(0))
    /\ retBool = FALSE
    /\ sample = 0

CallIsPowerOfTwo ==
    /\ fn = "none"
    /\ \E val \in IntInputs :
        /\ fn' = "isPowerOfTwo"
        /\ args' = <<Whole(val)>>
        /\ retBool' = isPowerOfTwo(val)
    /\ UNCHANGED <<ret, sample>>

CallIsPowerOfFour ==
    /\ fn = "none"
    /\ \E val \in IntInputs :
        /\ fn' = "isPowerOfFour"
        /\ args' = <<Whole(val)>>
        /\ retBool' = isPowerOfFour(val)
    /\ UNCHANGED <<ret, sample>>

CallNextPowerOfTwo ==
    /\ fn = "none"
    /\ \E val \in IntInputs :
        /\ fn' = "nextPowerOfTwo"
        /\ args' = <<Whole(val)>>
        /\ ret' = Whole(nextPowerOfTwo(val))
    /\ UNCHANGED <<retBool, sample>>

CallClamp ==
    /\ fn = "none"
    /\ \E val \in ClampInputs, low \in ClampInputs, high \in ClampInputs :
        /\ fn' = "clamp"
        /\ args' = <<Whole(val), Whole(low), Whole(high)>>
        /\ ret' = Whole(clamp(val, low, high))
    /\ UNCHANGED <<retBool, sample>>

CallRandom ==
    /\ fn = "none"
    /\ \E min \in RandInputs, max \in RandInputs, j \in 0..(RandDen - 1) :
        /\ fn' = "random"
        /\ args' = <<Whole(min), Whole(max)>>
        /\ sample' = j
        /\ ret' = Whole(random(min, max, j))
    /\ UNCHANGED retBool

CallWeightedRandom ==
    /\ fn = "none"
    /\ \E min \in RandInputs, max \in RandInputs, j \in 0..(RandDen - 1) :
        /\ fn' = "weightedRandom"
        /\ args' = <<Whole(min), Whole(max)>>
        /\ sample' = j
        /\ ret' = Whole(weightedRandom(min, max, j))
    /\ UNCHANGED retBool

CallRound ==
    /\ fn = "none"
    /\ \E in \in RoundInputs :
        /\ fn' = "round"
        /\ args' = <<in[1]>> \o Passed(in[2])
        /\ ret' = round(in[1], in[2])
    /\ UNCHANGED <<retBool, sample>>

CallToBeCloseTo ==
    /\ fn = "none"
    /\ \E expected \in CloseInputs, actual \in CloseInputs, precision \in OptArgs :
        /\ fn' = "toBeCloseTo"
        /\ args' = <<expected, actual>> \o Passed(precision)
        /\ retBool' = toBeCloseTo(expected, actual, precision)
    /\ UNCHANGED <<ret, sample>>

\* the caller takes the result
Return ==
    /\ fn # "none"
    /\ fn' = "none"
    /\ args' = <<>>
    /\ ret' = Whole(N(0))
    /\ retBool' = FALSE
    /\ sample' = 0

Next ==
    \/ CallIsPowerOfTwo
    \/ CallIsPowerOfFour
    \/ CallNextPowerOfTwo
    \/ CallClamp
    \/ CallRandom
    \/ CallWeightedRandom
    \/ CallRound
    \/ CallToBeCloseTo
    \/ Return

Spec == Init /\ [][Next]_vars

----------------------------------------------------------------------------
(* Reference notions used by the properties *)

InRange(lo, v, hi) == NumLeq(lo, v) /\ NumLeq(v, hi)

IsTwoToThe(v) == \E k \in 0..(MaxExp + 2) : v = Pow2(k)

IsFourToThe(v) == \E k \in 0..(MaxExp + 2) : k % 2 = 0 /\ v = Pow2(k)

RECURSIVE Ones(_)
Ones(x) == IF x = 0 THEN 0 ELSE (x % 2) + Ones(x \div 2)

\* number of set bits of a non-negative integer
SetBits(v) == Ones(v[1]) + Ones(v[2])

\* the i-th argument, an integer, or d when it was omitted
ArgOr(i, d) == IF Len(args) < i THEN d ELSE args[i].m[2]

\* the optional argument as the functions take it
Opt(i) == IF Len(args) < i THEN <<>> ELSE <<args[i].m[2]>>

TypeOK ==
    fn \in {"none", "isPowerOfTwo", "isPowerOfFour", "nextPowerOfTwo", "clamp",
            "random", "weightedRandom", "round", "toBeCloseTo"}

----------------------------------------------------------------------------
(* Properties *)

\* C1: for 1 <= val <= 2^31, nextPowerOfTwo(val) is the smallest power of two
\* that is >= val: it is some 2^k, it is >= val, and half of it is < val
\* whenever it is > 1.
C1_NextPowerOfTwoSmallest ==
    (fn = "nextPowerOfTwo" /\ InRange(N(1), args[1].m, Pow2(31)))
        => /\ ret.e = 0
           /\ IsTwoToThe(ret.m)
           /\ NumLeq(args[1].m, ret.m)
           /\ (NumLess(N(1), ret.m) => NumLess(ret.m, NumMulSmall(args[1].m, 2)))

C1_Witness ==
    /\ fn = "nextPowerOfTwo"
    /\ args[1].m = NumAdd(Pow2(30), N(1))
    /\ ret.m = Pow2(31)

\* C2: for 0 <= val < 2^32, isPowerOfFour(val) is true exactly when val = 4^k
\* for some k >= 0; it is false for 0, 2, 3, 8, 32 and for every power of two
\* whose set bit is at an odd position, bit 31 included.
C2_PowerOfFourExact ==
    (fn = "isPowerOfFour" /\ InRange(N(0), args[1].m, NumSub(Pow2(32), N(1))))
        => /\ retBool <=> IsFourToThe(args[1].m)
           /\ (args[1].m \in {N(0), N(2), N(3), N(8), N(32)} => ~retBool)
           /\ ((IsTwoToThe(args[1].m) /\ ~IsFourToThe(args[1].m)) => ~retBool)

C2_Witness ==
    /\ fn = "isPowerOfFour"
    /\ args[1].m = Pow2(31)
    /\ retBool = FALSE

\* C3: for 0 <= val <= 2^31, isPowerOfTwo(val) is true exactly when val = 0 or
\* val has exactly one set bit (val = 2^k), and false for every other val.
C3_PowerOfTwoOrZero ==
    (fn = "isPowerOfTwo" /\ InRange(N(0), args[1].m, Pow2(31)))
        => /\ retBool <=> (args[1].m = N(0) \/ SetBits(args[1].m) = 1)
           /\ retBool <=> (args[1].m = N(0) \/ IsTwoToThe(args[1].m))

C3_Witness ==
    /\ fn = "isPowerOfTwo"
    /\ args[1].m = N(0)
    /\ retBool = TRUE

\* C4: for low <= high, clamp(val, low, high) is low when val < low, high when
\* val > high and val otherwise, so low <= result <= high and the result is val
\* whenever low <= val <= high.
C4_ClampWithinLimits ==
    (fn = "clamp" /\ NumLeq(args[2].m, args[3].m))
        => /\ ret.e = 0
           /\ NumLess(args[1].m, args[2].m) => ret.m = args[2].m
           /\ NumLess(args[3].m, args[1].m) => ret.m = args[3].m
           /\ InRange(args[2].m, args[1].m, args[3].m) => ret.m = args[1].m
           /\ InRange(args[2].m, ret.m, args[3].m)

C4_Witness ==
    /\ fn = "clamp"
    /\ args = <<Whole(NumAdd(Pow2(31), N(1))), Whole(N(-1)), Whole(Pow2(31))>>
    /\ ret = Whole(Pow2(31))

\* C5: for min < max with max - min < 2^31 and every sample 0 <= u < 1,
\* random(min, max) is an integer r with min <= r < max: max is never returned.
C5_RandomInHalfOpenRange ==
    (/\ fn = "random"
     /\ NumLess(args[1].m, args[2].m)
     /\ NumLess(NumSub(args[2].m, args[1].m), Pow2(31)))
        => /\ ret.e = 0
           /\ NumLeq(args[1].m, ret.m)
           /\ NumLess(ret.m, args[2].m)

\* min itself is returned
C5_Witness ==
    /\ fn = "random"
    /\ args = <<Whole(N(5)), Whole(N(10))>>
    /\ ret = Whole(N(5))

\* C6: for num >= 0 and dec >= 0 with num * 10^dec + 0.5 < 2^31, round(num, dec)
\* is the multiple of 10^-dec nearest to num, exact halves rounded up: the result
\* t / 10^dec satisfies -10^e < 2 * (t * 10^e - m * 10^dec) <= 10^e for
\* num = m / 10^e, and so |round(num, dec) - num| <= 10^-dec / 2.
C6_RoundNearestHalfUp ==
    (/\ fn = "round"
     /\ ~NumIsNeg(args[1].m)
     /\ NumLess(TruncHalfPlus(args[1], ArgOr(2, 0)), Pow2(31)))
        => LET d == ArgOr(2, 0)
               e == args[1].e
               off == NumMulSmall(NumSub(NumMulSmall(ret.m, Pow10(e)),
                                         NumMulSmall(args[1].m, Pow10(d))), 2)
           IN  /\ ret.e = d
               /\ NumLess(N(-Pow10(e)), off)
               /\ NumLeq(off, N(Pow10(e)))

C6_Witness ==
    /\ fn = "round"
    /\ args = <<Dec(1033333, 5), Whole(N(2))>>
    /\ ret = Dec(1033, 2)

\* C7: toBeCloseTo(expected, actual, precision) is true exactly when
\* |expected - actual| < 10^-precision / 2 (exactly half a unit gives false); the
\* result is the same with expected and actual swapped; precision defaults to 2.
C7_CloseToStrictHalfUnit ==
    fn = "toBeCloseTo"
        => LET x == args[1]
               y == args[2]
               p == ArgOr(3, 2)
               s == IF x.e > y.e THEN x.e ELSE y.e
               xs == (x.m[1] * Base + x.m[2]) * Pow10(s - x.e)
               ys == (y.m[1] * Base + y.m[2]) * Pow10(s - y.e)
               dist == IF xs < ys THEN ys - xs ELSE xs - ys
           IN  /\ retBool <=> (2 * dist * Pow10(p) < Pow10(s))
               /\ (2 * dist * Pow10(p) = Pow10(s)) => ~retBool
               /\ retBool = toBeCloseTo(y, x, Opt(3))
               /\ (Len(args) < 3) => (retBool = toBeCloseTo(x, y, <<2>>))

\* a difference of exactly half a unit, precision omitted
C7_Witness ==
    /\ fn = "toBeCloseTo"
    /\ args = <<Dec(0, 0), Dec(5, 3)>>
    /\ retBool = FALSE

C9_WeightedNotAboveRandom ==
    (/\ fn = "weightedRandom"
     /\ NumLess(args[1].m, args[2].m)
     /\ NumLess(NumSub(args[2].m, args[1].m), Pow2(31)))
        => /\ ret.e = 0
           /\ NumLeq(args[1].m, ret.m)
           /\ NumLess(ret.m, args[2].m)
           /\ NumLeq(ret.m, random(args[1].m, args[2].m, sample))

\* the squared sample gives a strictly smaller result
C9_Witness ==
    /\ fn = "weightedRandom"
    /\ args = <<Whole(N(5)), Whole(N(10))>>
    /\ NumLess(ret.m, random(args[1].m, args[2].m, sample))

\* C10: for -2^31 < v <= 2^31, nextPowerOfTwo(v) satisfies isPowerOfTwo and is a
\* fixed point of nextPowerOfTwo; for -2^31 < v <= 0 the result is 0.
C10_NextPowerOfTwoIdempotent ==
    (/\ fn = "nextPowerOfTwo"
     /\ NumLess(NumNeg(Pow2(31)), args[1].m)
     /\ NumLeq(args[1].m, Pow2(31)))
        => /\ isPowerOfTwo(ret.m)
           /\ nextPowerOfTwo(ret.m) = ret.m
           /\ NumLeq(args[1].m, N(0)) => ret.m = N(0)

C10_Witness ==
    /\ fn = "nextPowerOfTwo"
    /\ args[1].m = N(-5)
    /\ ret.m = N(0)

====
